---- MODULE Spec2Model ----
(***************************************************************************)
(* A model of MemoryVectorStore (src/src/memory-vector-store.ts): a keyed, *)
(* insertion-ordered collection of documents with embeddings, the          *)
(* asynchronous upserts and text search that await the embedding provider, *)
(* and the synchronous reads, deletes, vector search, export and import.   *)
(*                                                                         *)
(* Numbers.  Embedding components are small integers.  A cosine score is   *)
(* kept exactly as the pair [d, n] that stands for d / sqrt(n), n > 0      *)
(* (d the dot product, n the product of the squared magnitudes), and       *)
(* scores are compared exactly.  On the vectors used here the IEEE double  *)
(* computed by the code orders scores the same way.                        *)
(*                                                                         *)
(* Optional values (a possibly undefined field or argument) are sequences  *)
(* of length at most one: None is undefined, Some(x) is x.                 *)
(***************************************************************************)
EXTENDS Integers, Sequences, FiniteSets, TLC

VARIABLES
    dimension,   \* this.dimension, fixed by the constructor
    documents,   \* this.documents: the Map's values in iteration order (key = id)
    pending,     \* the asynchronous calls suspended on the embedding provider
    last         \* what the most recent step did and returned to its caller

vars == <<dimension, documents, pending, last>>

----------------------------------------------------------------------------
(* Bounds of the model *)

MaxPending == 2      \* asynchronous calls in flight at once
MaxBatchLen == 2     \* length of an addDocuments input
MaxImportLen == 2    \* length of an import input

(* Program constants *)

DefaultDimension == 1536
DefaultTopK == 5
DefaultThreshold == 0

----------------------------------------------------------------------------
(* Optional values *)

None == << >>
Some(x) == <<x>>
IsSome(o) == Len(o) > 0
Val(o) == o[1]

SeqsUpTo(S, n) == UNION {[1..m -> S] : m \in 0..n}

----------------------------------------------------------------------------
(* The values the caller and the provider supply *)

Ids == {"a", "b"}

\* Vectors the provider answers for a text: a unit vector, its opposite and
\* the zero vector of length 2, and one vector of length 1.
Vectors == {<<1, 0>>, <<-1, 0>>, <<0, 0>>, <<1>>}

\* Vectors the caller passes to similaritySearchByVector: equal to, and
\* orthogonal to, the unit vector above, and one vector of length 1.
QueryVectors == {<<1, 0>>, <<0, 1>>, <<1>>}

\* config.dimension as given to the constructor; 0 stands for "not given".
ConfigDimensions == {2}

\* interface Document: metadata and embedding are optional.
Document(id, content, metadata, embedding) ==
    [id |-> id, content |-> content, metadata |-> metadata, embedding |-> embedding]

\* Omit<Document, 'embedding'> inputs of addDocument: per id, one document
\* with metadata and one with other content and no metadata.
RawDocs ==
    {Document(i, "c1", Some("m"), None) : i \in Ids}
        \cup {Document(i, "c2", None, None) : i \in Ids}

\* The documents of an addDocuments input: one per id.
BatchDocs == {Document("a", "c1", Some("m"), None), Document("b", "c2", None, None)}

\* Document inputs of import: without an embedding, or with one whose
\* length is, or is not, the dimension (the ids are interchangeable).
ImportDocs ==
    {Document(i, "c1", Some("m"), None) : i \in Ids}
        \cup {Document("a", "c1", Some("m"), Some(<<1, 0>>)),
              Document("b", "c1", Some("m"), Some(<<1>>))}

----------------------------------------------------------------------------
(* this.documents: a Map<string, Document>, iterated in insertion order *)

IndexOf(docs, id) ==
    IF \E i \in 1..Len(docs) : docs[i].id = id
    THEN CHOOSE i \in 1..Len(docs) : docs[i].id = id
    ELSE 0

MapHas(docs, id) == IndexOf(docs, id) # 0

\* Map.get: the value or undefined
MapGet(docs, id) ==
    IF MapHas(docs, id) THEN Some(docs[IndexOf(docs, id)]) ELSE None

\* Mutant of MapSet: the document is pushed to a list, the key not looked up.
MapSetAlwaysAppends(docs, doc) == Append(docs, doc)

\* Map.set: an existing key keeps its place, a new key goes to the end
MapSet(docs, doc) ==
    IF MapHas(docs, doc.id)
    THEN [docs EXCEPT ![IndexOf(docs, doc.id)] = doc]
    ELSE Append(docs, doc)

\* Mutant of MapDelete: the entry and every entry after it are removed.
MapDeleteTruncates(docs, id) ==
    LET k == IndexOf(docs, id) IN
    IF k = 0 THEN docs ELSE SubSeq(docs, 1, k - 1)

\* Map.delete
MapDelete(docs, id) ==
    LET k == IndexOf(docs, id) IN
    IF k = 0 THEN docs
    ELSE [i \in 1..(Len(docs) - 1) |-> IF i < k THEN docs[i] ELSE docs[i + 1]]

----------------------------------------------------------------------------
(* cosineSimilarity *)

RECURSIVE Dot(_, _, _)
\* the loop of cosineSimilarity: sum of a[i] * b[i] for i up to n
Dot(a, b, n) == IF n = 0 THEN 0 ELSE Dot(a, b, n - 1) + a[n] * b[n]

Score(d, n) == [d |-> d, n |-> n]

\* s >= t for s = s.d / sqrt(s.n) and t = t.d / sqrt(t.n)
ScoreGE(s, t) ==
    IF s.d >= 0
    THEN t.d <= 0 \/ s.d * s.d * t.n >= t.d * t.d * s.n
    ELSE t.d < 0 /\ s.d * s.d * t.n <= t.d * t.d * s.n

\* Mutant of cosineSimilarity: a zero magnitude is an error.
cosineSimilarityZeroThrows(a, b) ==
    IF Len(a) # Len(b)
    THEN [threw |-> TRUE, score |-> Score(0, 1)]
    ELSE LET dotProduct == Dot(a, b, Len(a))
             magnitudeA == Dot(a, a, Len(a))
             magnitudeB == Dot(b, b, Len(b))
         IN  IF magnitudeA = 0 \/ magnitudeB = 0
             THEN [threw |-> TRUE, score |-> Score(0, 1)]
             ELSE [threw |-> FALSE, score |-> Score(dotProduct, magnitudeA * magnitudeB)]

\* cosineSimilarity(a, b): throws on unequal lengths, 0 when a magnitude is
\* 0, else dot / (|a| * |b|)
cosineSimilarity(a, b) ==
    IF Len(a) # Len(b)
    THEN [threw |-> TRUE, score |-> Score(0, 1)]
    ELSE LET dotProduct == Dot(a, b, Len(a))
             magnitudeA == Dot(a, a, Len(a))
             magnitudeB == Dot(b, b, Len(b))
         IN  IF magnitudeA = 0 \/ magnitudeB = 0
             THEN [threw |-> FALSE, score |-> Score(0, 1)]
             ELSE [threw |-> FALSE, score |-> Score(dotProduct, magnitudeA * magnitudeB)]

----------------------------------------------------------------------------
(* The ranking shared by similaritySearch and similaritySearchByVector *)

\* the caller's filter predicates: (doc) => doc.metadata !== undefined
FilterNames == {"hasMetadata"}
ApplyFilter(name, doc) == IsSome(doc.metadata)

TopKs == {None, Some(1)}
Thresholds == {None, Some(-1)}
Filters == {None} \cup {Some(f) : f \in FilterNames}
SearchOptions == [topK : TopKs, threshold : Thresholds, filter : Filters]

\* const { topK = 5, threshold = 0, filter } = options
TopKOf(options) == IF IsSome(options.topK) THEN Val(options.topK) ELSE DefaultTopK
\* Mutant of ThresholdOf: an omitted threshold is the lowest score there
\* is, so that no score is under it.
ThresholdOfOmittedIsLowest(options) ==
    IF IsSome(options.threshold) THEN Val(options.threshold) ELSE -1

ThresholdOf(options) ==
    IF IsSome(options.threshold) THEN Val(options.threshold) ELSE DefaultThreshold

NoScan ==
    [threw |-> FALSE, results |-> << >>, filtered |-> << >>, warned |-> << >>,
     cosined |-> << >>]

\* Mutant of ScanDoc: the threshold test is score > threshold.
ScanDocStrict(acc, doc, query, threshold, filter) ==
    LET seen == IF IsSome(filter)
                THEN [acc EXCEPT !.filtered = Append(@, doc.id)]
                ELSE acc
    IN
    IF IsSome(filter) /\ ~ApplyFilter(Val(filter), doc)
    THEN seen
    ELSE IF ~IsSome(doc.embedding)
    THEN [seen EXCEPT !.warned = Append(@, doc.id)]
    ELSE LET c == cosineSimilarity(query, Val(doc.embedding))
             computed == [seen EXCEPT !.cosined = Append(@, doc.id)]
         IN  IF c.threw
             THEN [computed EXCEPT !.threw = TRUE]
             ELSE IF ~ScoreGE(Score(threshold, 1), c.score)
             THEN [computed EXCEPT !.results =
                       Append(@, [document |-> doc, score |-> c.score])]
             ELSE computed

\* Mutant of ScanDoc: the filter is applied after the embedding test and
\* the similarity computation.
ScanDocFilterLast(acc, doc, query, threshold, filter) ==
    LET seen == IF IsSome(filter)
                THEN [acc EXCEPT !.filtered = Append(@, doc.id)]
                ELSE acc
        passes == IsSome(filter) => ApplyFilter(Val(filter), doc)
    IN
    IF ~IsSome(doc.embedding)
    THEN [seen EXCEPT !.warned = Append(@, doc.id)]
    ELSE LET c == cosineSimilarity(query, Val(doc.embedding))
             computed == [seen EXCEPT !.cosined = Append(@, doc.id)]
         IN  IF c.threw
             THEN [computed EXCEPT !.threw = TRUE]
             ELSE IF passes /\ ScoreGE(c.score, Score(threshold, 1))
             THEN [computed EXCEPT !.results =
                       Append(@, [document |-> doc, score |-> c.score])]
             ELSE computed

\* Mutant of ScanDoc: no test of doc.embedding, so that reading the
\* length of an absent embedding in cosineSimilarity throws.
ScanDocNoEmbeddingTest(acc, doc, query, threshold, filter) ==
    LET seen == IF IsSome(filter)
                THEN [acc EXCEPT !.filtered = Append(@, doc.id)]
                ELSE acc
    IN
    IF IsSome(filter) /\ ~ApplyFilter(Val(filter), doc)
    THEN seen
    ELSE IF ~IsSome(doc.embedding)
    THEN [seen EXCEPT !.threw = TRUE]
    ELSE LET c == cosineSimilarity(query, Val(doc.embedding))
             computed == [seen EXCEPT !.cosined = Append(@, doc.id)]
         IN  IF c.threw
             THEN [computed EXCEPT !.threw = TRUE]
             ELSE IF ScoreGE(c.score, Score(threshold, 1))
             THEN [computed EXCEPT !.results =
                       Append(@, [document |-> doc, score |-> c.score])]
             ELSE computed

\* one iteration of the loop over this.documents.values()
ScanDoc(acc, doc, query, threshold, filter) ==
    LET seen == IF IsSome(filter)
                THEN [acc EXCEPT !.filtered = Append(@, doc.id)]
                ELSE acc
    IN
    IF IsSome(filter) /\ ~ApplyFilter(Val(filter), doc)
    THEN seen
    ELSE IF ~IsSome(doc.embedding)
    THEN [seen EXCEPT !.warned = Append(@, doc.id)]
    ELSE LET c == cosineSimilarity(query, Val(doc.embedding))
             computed == [seen EXCEPT !.cosined = Append(@, doc.id)]
         IN  IF c.threw
             THEN [computed EXCEPT !.threw = TRUE]
             ELSE IF ScoreGE(c.score, Score(threshold, 1))
             THEN [computed EXCEPT !.results =
                       Append(@, [document |-> doc, score |-> c.score])]
             ELSE computed

RECURSIVE Scan(_, _, _, _, _)
\* the loop over the first n documents; it ends at the first throw
Scan(docs, n, query, threshold, filter) ==
    IF n = 0 THEN NoScan
    ELSE LET acc == Scan(docs, n - 1, query, threshold, filter) IN
         IF acc.threw THEN acc
         ELSE ScanDoc(acc, docs[n], query, threshold, filter)

\* Mutant of InsertByScore: x goes before the results whose score equals
\* its own (a sort that is not stable).
InsertByScoreBeforeEquals(sorted, x) ==
    LET p == Cardinality({i \in 1..Len(sorted) : ~ScoreGE(x.score, sorted[i].score)})
    IN  SubSeq(sorted, 1, p) \o <<x>> \o SubSeq(sorted, p + 1, Len(sorted))

\* where sort((a, b) => b.score - a.score) puts x among the sorted
\* results before it: after every result whose score is >= its own
InsertByScore(sorted, x) ==
    LET p == Cardinality({i \in 1..Len(sorted) : ScoreGE(sorted[i].score, x.score)})
    IN  SubSeq(sorted, 1, p) \o <<x>> \o SubSeq(sorted, p + 1, Len(sorted))

RECURSIVE SortByScoreAscending(_)
\* Mutant of SortByScore: the comparator is a.score - b.score.
SortByScoreAscending(results) ==
    IF results = << >> THEN << >>
    ELSE LET sorted == SortByScoreAscending(SubSeq(results, 1, Len(results) - 1))
             x == results[Len(results)]
             p == Cardinality({i \in 1..Len(sorted) : ScoreGE(x.score, sorted[i].score)})
         IN  SubSeq(sorted, 1, p) \o <<x>> \o SubSeq(sorted, p + 1, Len(sorted))

RECURSIVE SortByScore(_)
\* results.sort((a, b) => b.score - a.score): descending and stable
SortByScore(results) ==
    IF results = << >> THEN << >>
    ELSE InsertByScore(SortByScore(SubSeq(results, 1, Len(results) - 1)),
                       results[Len(results)])

\* Mutant of Slice: slice(-end), the last end elements.
SliceFromEnd(s, end) ==
    IF end <= 0 THEN s
    ELSE SubSeq(s, (IF Len(s) > end THEN Len(s) - end + 1 ELSE 1), Len(s))

\* Array.prototype.slice(0, end)
Slice(s, end) ==
    LET stop == IF end < 0
                THEN (IF Len(s) + end < 0 THEN 0 ELSE Len(s) + end)
                ELSE (IF end > Len(s) THEN Len(s) ELSE end)
    IN  SubSeq(s, 1, stop)

\* Mutant of Rank: the retained pairs are truncated in scan order, unsorted.
RankUnsorted(docs, query, options) ==
    LET scan == Scan(docs, Len(docs), query, ThresholdOf(options), options.filter)
    IN  IF scan.threw THEN scan
        ELSE [scan EXCEPT !.results = Slice(@, TopKOf(options))]

\* scan, sort and truncate
Rank(docs, query, options) ==
    LET scan == Scan(docs, Len(docs), query, ThresholdOf(options), options.filter)
    IN  IF scan.threw THEN scan
        ELSE [scan EXCEPT !.results = Slice(SortByScore(@), TopKOf(options))]

----------------------------------------------------------------------------
(* What a step reports: the operation, its arguments, how it ended and    *)
(* what it returned, with the provider calls, filter calls, warnings and  *)
(* similarity computations it made.                                       *)

NoOptions == [topK |-> None, threshold |-> None, filter |-> None]

NoRet ==
    [op |-> "none", status |-> "ok", error |-> "", id |-> "",
     input |-> << >>, vector |-> << >>, options |-> NoOptions,
     docs |-> << >>, results |-> << >>, found |-> FALSE, n |-> 0,
     calls |-> 0, cause |-> "", filtered |-> << >>, warned |-> << >>,
     cosined |-> << >>]

Idle ==
    [op |-> "idle", input |-> << >>, k |-> 0, results |-> << >>,
     options |-> NoOptions, calls |-> 0]

Tasks == 1..MaxPending

----------------------------------------------------------------------------
\* constructor: no documents, dimension = config.dimension || 1536
Init ==
    /\ \E d \in ConfigDimensions :
         dimension = IF d = 0 THEN DefaultDimension ELSE d
    /\ documents = << >>
    /\ pending = [t \in Tasks |-> Idle]
    /\ last = NoRet

\* Mutant of GetDocument: a lookup that finds the document moves it to the
\* end of the iteration order (delete, then set), as a recency list would.
GetDocumentTouches(id) ==
    /\ last' = [NoRet EXCEPT !.op = "getDocument", !.id = id,
                             !.docs = MapGet(documents, id)]
    /\ documents' = IF MapHas(documents, id)
                    THEN MapSet(MapDelete(documents, id), Val(MapGet(documents, id)))
                    ELSE documents
    /\ UNCHANGED <<dimension, pending>>

\* getDocument(id): this.documents.get(id)
GetDocument(id) ==
    /\ last' = [NoRet EXCEPT !.op = "getDocument", !.id = id,
                             !.docs = MapGet(documents, id)]
    /\ UNCHANGED <<dimension, documents, pending>>

\* Array.from(this.documents.values()): a new array of the resident objects
getAllDocuments(docs) == docs

\* getAllDocuments()
GetAllDocuments ==
    /\ last' = [NoRet EXCEPT !.op = "getAllDocuments",
                             !.docs = getAllDocuments(documents)]
    /\ UNCHANGED <<dimension, documents, pending>>

\* export(): return this.getAllDocuments()
Export ==
    /\ last' = [NoRet EXCEPT !.op = "export", !.docs = getAllDocuments(documents)]
    /\ UNCHANGED <<dimension, documents, pending>>

\* deleteDocument(id): this.documents.delete(id)
DeleteDocument(id) ==
    /\ documents' = MapDelete(documents, id)
    /\ last' = [NoRet EXCEPT !.op = "deleteDocument", !.id = id,
                             !.found = MapHas(documents, id)]
    /\ UNCHANGED <<dimension, pending>>

\* Mutant of Clear: the suspended calls are dropped with the documents.
ClearCancelsPending ==
    /\ documents' = << >>
    /\ pending' = [t \in Tasks |-> Idle]
    /\ last' = [NoRet EXCEPT !.op = "clear"]
    /\ UNCHANGED dimension

\* clear(): this.documents.clear()
Clear ==
    /\ documents' = << >>
    /\ last' = [NoRet EXCEPT !.op = "clear"]
    /\ UNCHANGED <<dimension, pending>>

\* size()
Size ==
    /\ last' = [NoRet EXCEPT !.op = "size", !.n = Len(documents)]
    /\ UNCHANGED <<dimension, documents, pending>>

\* similaritySearchByVector(embedding, options): [] on an empty store, then
\* the dimension check, then the ranking
similaritySearchByVector(docs, dim, embedding, options) ==
    IF Len(docs) = 0
    THEN [NoRet EXCEPT !.op = "similaritySearchByVector"]
    ELSE IF Len(embedding) # dim
    THEN [NoRet EXCEPT !.op = "similaritySearchByVector", !.status = "error",
                       !.error = "DimensionMismatch"]
    ELSE LET r == Rank(docs, embedding, options) IN
         [NoRet EXCEPT !.op = "similaritySearchByVector",
                       !.status = IF r.threw THEN "error" ELSE "ok",
                       !.error = IF r.threw THEN "VectorsLength" ELSE "",
                       !.results = IF r.threw THEN << >> ELSE r.results,
                       !.filtered = r.filtered, !.warned = r.warned,
                       !.cosined = r.cosined]

SimilaritySearchByVector(embedding, options) ==
    /\ last' = [similaritySearchByVector(documents, dimension, embedding, options)
                   EXCEPT !.vector = embedding, !.options = options]
    /\ UNCHANGED <<dimension, documents, pending>>

RECURSIVE importDocumentsAllOrNothing(_, _, _)
\* Mutant of importDocuments: every input is validated before any is set.
importDocumentsAllOrNothing(docs, input, n) ==
    IF n = 0 THEN [documents |-> docs, threw |-> FALSE, at |-> 0]
    ELSE IF \E j \in 1..n : ~IsSome(input[j].embedding)
    THEN [documents |-> docs, threw |-> TRUE,
          at |-> CHOOSE j \in 1..n :
                     /\ ~IsSome(input[j].embedding)
                     /\ \A h \in 1..(j - 1) : IsSome(input[h].embedding)]
    ELSE [importDocumentsAllOrNothing(docs, input, n - 1)
             EXCEPT !.documents = MapSet(@, input[n])]

RECURSIVE importDocumentsFalsyFirst(_, _, _)
\* Mutant of importDocuments: the guard is !doc.embedding?.[0], which also
\* refuses an embedding whose first component is 0.
importDocumentsFalsyFirst(docs, input, n) ==
    IF n = 0 THEN [documents |-> docs, threw |-> FALSE, at |-> 0]
    ELSE LET before == importDocumentsFalsyFirst(docs, input, n - 1)
             e == input[n].embedding
         IN  IF before.threw THEN before
             ELSE IF ~IsSome(e) \/ Len(Val(e)) = 0 \/ Val(e)[1] = 0
             THEN [before EXCEPT !.threw = TRUE, !.at = n]
             ELSE [before EXCEPT !.documents = MapSet(@, input[n])]

RECURSIVE importDocuments(_, _, _)
\* the loop of import over the first n inputs: it throws at the first input
\* without an embedding and sets every input before it
importDocuments(docs, input, n) ==
    IF n = 0 THEN [documents |-> docs, threw |-> FALSE, at |-> 0]
    ELSE LET before == importDocuments(docs, input, n - 1) IN
         IF before.threw THEN before
         ELSE IF ~IsSome(input[n].embedding)
         THEN [before EXCEPT !.threw = TRUE, !.at = n]
         ELSE [before EXCEPT !.documents = MapSet(@, input[n])]

\* import(documents)
Import(input) ==
    LET r == importDocuments(documents, input, Len(input)) IN
    /\ documents' = r.documents
    /\ last' = [NoRet EXCEPT !.op = "import", !.input = input,
                             !.status = IF r.threw THEN "error" ELSE "ok",
                             !.error = IF r.threw THEN "MissingEmbedding" ELSE "",
                             !.n = r.at]
    /\ UNCHANGED <<dimension, pending>>

\* newStore = new MemoryVectorStore(same config); newStore.import(store.export())
ImportIntoNewStore ==
    LET r == importDocuments(<< >>, getAllDocuments(documents), Len(documents)) IN
    /\ last' = [NoRet EXCEPT !.op = "importIntoNewStore",
                             !.status = IF r.threw THEN "error" ELSE "ok",
                             !.error = IF r.threw THEN "MissingEmbedding" ELSE "",
                             !.docs = r.documents, !.n = Len(r.documents)]
    /\ UNCHANGED <<dimension, documents, pending>>

----------------------------------------------------------------------------
(* The asynchronous operations.  Each awaits generateEmbedding, which      *)
(* calls the provider; the call is a step, and the provider's answer (a    *)
(* vector, or a rejection that generateEmbedding rethrows wrapped) is a    *)
(* later step in which the operation runs on to its next await or to its   *)
(* end.  The microtask hops between an inner async function's return and   *)
(* its awaiter's resumption touch no state of the store and are folded in. *)

FreeTask(t) ==
    /\ pending[t].op = "idle"
    /\ \A u \in Tasks : u < t => pending[u].op # "idle"

Suspended(op) == [NoRet EXCEPT !.op = op, !.status = "pending", !.calls = 1]

\* addDocument(document), up to the await of generateEmbedding
AddDocument(document) ==
    \E t \in Tasks :
        /\ FreeTask(t)
        /\ pending' = [pending EXCEPT ![t] =
               [Idle EXCEPT !.op = "addDocument", !.input = <<document>>,
                            !.k = 1, !.calls = 1]]
        /\ last' = [Suspended("addDocument") EXCEPT !.input = <<document>>]
        /\ UNCHANGED <<dimension, documents>>

\* const fullDocument = { ...document, embedding }
fullDocument(document, embedding) == [document EXCEPT !.embedding = Some(embedding)]

\* Mutant of AddDocumentResume: an id that became resident while the call
\* was suspended is left as it is (insert if absent).
AddDocumentResumeIfAbsent(t, embedding) ==
    LET task == pending[t]
        full == fullDocument(task.input[1], embedding)
    IN
    /\ task.op = "addDocument"
    /\ documents' = IF MapHas(documents, full.id) THEN documents
                    ELSE MapSet(documents, full)
    /\ pending' = [pending EXCEPT ![t] = Idle]
    /\ last' = [NoRet EXCEPT !.op = "addDocument", !.id = full.id,
                             !.input = task.input, !.vector = embedding,
                             !.docs = <<full>>,
                             !.calls = task.calls]
    /\ UNCHANGED dimension

\* addDocument after the await: set and return the full document
AddDocumentResume(t, embedding) ==
    LET task == pending[t]
        full == fullDocument(task.input[1], embedding)
    IN
    /\ task.op = "addDocument"
    /\ documents' = MapSet(documents, full)
    /\ pending' = [pending EXCEPT ![t] = Idle]
    /\ last' = [NoRet EXCEPT !.op = "addDocument", !.id = full.id,
                             !.input = task.input, !.vector = embedding,
                             !.docs = <<full>>,
                             !.calls = task.calls]
    /\ UNCHANGED dimension

\* addDocuments(documents), up to the first await; an empty input returns []
AddDocuments(input) ==
    IF Len(input) = 0
    THEN /\ last' = [NoRet EXCEPT !.op = "addDocuments"]
         /\ UNCHANGED <<dimension, documents, pending>>
    ELSE \E t \in Tasks :
            /\ FreeTask(t)
            /\ pending' = [pending EXCEPT ![t] =
                   [Idle EXCEPT !.op = "addDocuments", !.input = input,
                                !.k = 1, !.calls = 1]]
            /\ last' = [Suspended("addDocuments") EXCEPT !.input = input]
            /\ UNCHANGED <<dimension, documents>>

\* addDocuments after an await: input k is set and pushed to results, then
\* the loop awaits the next input or returns the results
AddDocumentsResume(t, embedding) ==
    LET task == pending[t]
        full == fullDocument(task.input[task.k], embedding)
        results == Append(task.results, full)
    IN
    /\ task.op = "addDocuments"
    /\ documents' = MapSet(documents, full)
    /\ IF task.k < Len(task.input)
       THEN /\ pending' = [pending EXCEPT ![t] =
                   [task EXCEPT !.k = @ + 1, !.results = results, !.calls = @ + 1]]
            /\ last' = [Suspended("addDocuments") EXCEPT
                            !.id = full.id, !.input = task.input,
                            !.vector = embedding, !.docs = results,
                            !.calls = task.calls + 1]
       ELSE /\ pending' = [pending EXCEPT ![t] = Idle]
            /\ last' = [NoRet EXCEPT !.op = "addDocuments", !.id = full.id,
                                     !.input = task.input,
                                     !.vector = embedding, !.docs = results,
                                     !.calls = task.calls]
    /\ UNCHANGED dimension

\* Mutant of SimilaritySearch: no early return on an empty store.
SimilaritySearchNoEmptyCheck(options) ==
    \E t \in Tasks :
        /\ FreeTask(t)
        /\ pending' = [pending EXCEPT ![t] =
               [Idle EXCEPT !.op = "similaritySearch", !.options = options,
                            !.calls = 1]]
        /\ last' = [Suspended("similaritySearch") EXCEPT !.options = options]
        /\ UNCHANGED <<dimension, documents>>

\* similaritySearch(query, options), up to the await: [] on an empty store
\* without calling the provider
SimilaritySearch(options) ==
    IF Len(documents) = 0
    THEN /\ last' = [NoRet EXCEPT !.op = "similaritySearch", !.options = options]
         /\ UNCHANGED <<dimension, documents, pending>>
    ELSE \E t \in Tasks :
            /\ FreeTask(t)
            /\ pending' = [pending EXCEPT ![t] =
                   [Idle EXCEPT !.op = "similaritySearch", !.options = options,
                                !.calls = 1]]
            /\ last' = [Suspended("similaritySearch") EXCEPT !.options = options]
            /\ UNCHANGED <<dimension, documents>>

\* Mutant of SimilaritySearchResume: after the await the first resident
\* document is read (for the length of its embedding), which throws when
\* the store was emptied during the await.
SimilaritySearchResumeReadsFirst(t, queryEmbedding) ==
    LET task == pending[t]
        r == IF Len(documents) = 0
             THEN [NoScan EXCEPT !.threw = TRUE]
             ELSE Rank(documents, queryEmbedding, task.options)
    IN
    /\ task.op = "similaritySearch"
    /\ pending' = [pending EXCEPT ![t] = Idle]
    /\ last' = [NoRet EXCEPT !.op = "similaritySearch",
                             !.vector = queryEmbedding, !.options = task.options,
                             !.status = IF r.threw THEN "error" ELSE "ok",
                             !.error = IF r.threw THEN "VectorsLength" ELSE "",
                             !.results = IF r.threw THEN << >> ELSE r.results,
                             !.filtered = r.filtered, !.warned = r.warned,
                             !.cosined = r.cosined, !.calls = task.calls]
    /\ UNCHANGED <<dimension, documents>>

\* similaritySearch after the await: the ranking with the query embedding
SimilaritySearchResume(t, queryEmbedding) ==
    LET task == pending[t]
        r == Rank(documents, queryEmbedding, task.options)
    IN
    /\ task.op = "similaritySearch"
    /\ pending' = [pending EXCEPT ![t] = Idle]
    /\ last' = [NoRet EXCEPT !.op = "similaritySearch",
                             !.vector = queryEmbedding, !.options = task.options,
                             !.status = IF r.threw THEN "error" ELSE "ok",
                             !.error = IF r.threw THEN "VectorsLength" ELSE "",
                             !.results = IF r.threw THEN << >> ELSE r.results,
                             !.filtered = r.filtered, !.warned = r.warned,
                             !.cosined = r.cosined, !.calls = task.calls]
    /\ UNCHANGED <<dimension, documents>>

\* why a provider call rejects: an error of the provider, or the caller's
\* timeout or cancellation of the request
Causes == {"failed", "cancelled"}

\* Mutant of EmbeddingRejected: a failed batch takes back what it committed.
EmbeddingRejectedRollsBack(t, cause) ==
    LET task == pending[t]
        taken == {task.results[j].id : j \in 1..Len(task.results)}
    IN
    /\ task.op # "idle"
    /\ documents' = SelectSeq(documents, LAMBDA d : d.id \notin taken)
    /\ pending' = [pending EXCEPT ![t] = Idle]
    /\ last' = [NoRet EXCEPT !.op = task.op, !.status = "error",
                             !.error = "EmbeddingGeneration", !.cause = cause,
                             !.id = IF task.k > 0 THEN task.input[task.k].id ELSE "",
                             !.input = task.input, !.options = task.options,
                             !.docs = task.results, !.calls = task.calls]
    /\ UNCHANGED dimension

\* Mutant of EmbeddingRejected: the first rejection of a call is retried.
EmbeddingRejectedRetries(t, cause) ==
    LET task == pending[t] IN
    /\ task.op # "idle"
    /\ IF task.calls = task.k
       THEN /\ pending' = [pending EXCEPT ![t] = [task EXCEPT !.calls = @ + 1]]
            /\ last' = [Suspended(task.op) EXCEPT !.input = task.input,
                                                  !.calls = task.calls + 1]
       ELSE /\ pending' = [pending EXCEPT ![t] = Idle]
            /\ last' = [NoRet EXCEPT !.op = task.op, !.status = "error",
                                     !.error = "EmbeddingGeneration", !.cause = cause,
                                     !.input = task.input, !.options = task.options,
                                     !.docs = task.results, !.calls = task.calls]
    /\ UNCHANGED <<dimension, documents>>

\* generateEmbedding's catch: the rejection is rethrown as "Failed to
\* generate embedding", and addDocument, addDocuments or similaritySearch
\* rejects with it
EmbeddingRejected(t, cause) ==
    LET task == pending[t] IN
    /\ task.op # "idle"
    /\ pending' = [pending EXCEPT ![t] = Idle]
    /\ last' = [NoRet EXCEPT !.op = task.op, !.status = "error",
                             !.error = "EmbeddingGeneration", !.cause = cause,
                             !.id = IF task.k > 0 THEN task.input[task.k].id ELSE "",
                             !.input = task.input, !.options = task.options,
                             !.docs = task.results, !.calls = task.calls]
    /\ UNCHANGED <<dimension, documents>>

\* no asynchronous call is suspended
Quiescent == \A t \in Tasks : pending[t].op = "idle"

\* The caller awaits each asynchronous call before its next call: a call
\* of the interface starts when nothing is suspended, and the provider's
\* answer resumes the suspended call.
Next ==
    \/ Quiescent /\ \E d \in RawDocs : AddDocument(d)
    \/ Quiescent /\ \E input \in SeqsUpTo(BatchDocs, MaxBatchLen) : AddDocuments(input)
    \/ Quiescent /\ \E id \in Ids : GetDocument(id)
    \/ Quiescent /\ GetAllDocuments
    \/ Quiescent /\ \E id \in Ids : DeleteDocument(id)
    \/ Quiescent /\ Clear
    \/ Quiescent /\ Size
    \/ Quiescent /\ \E o \in SearchOptions : SimilaritySearch(o)
    \/ Quiescent /\ \E v \in QueryVectors, o \in SearchOptions :
                        SimilaritySearchByVector(v, o)
    \/ Quiescent /\ Export
    \/ Quiescent /\ \E input \in SeqsUpTo(ImportDocs, MaxImportLen) : Import(input)
    \/ Quiescent /\ ImportIntoNewStore
    \/ \E t \in Tasks, v \in Vectors : AddDocumentResume(t, v)
    \/ \E t \in Tasks, v \in Vectors : AddDocumentsResume(t, v)
    \/ \E t \in Tasks, v \in Vectors : SimilaritySearchResume(t, v)
    \/ \E t \in Tasks, c \in Causes : EmbeddingRejected(t, c)

Spec == Init /\ [][Next]_vars

----------------------------------------------------------------------------
(* A caller that writes to what getAllDocuments or export returned.  The   *)
(* returned array is new, and its elements are the objects the Map holds:  *)
(* right after the call, element i is the resident document of its id.     *)

ReturnedByGetAll == last.op \in {"getAllDocuments", "export"}

\* returned.pop(), or returned.length = 0: a write to the array itself
MutateReturnedArray(len) ==
    /\ ReturnedByGetAll
    /\ len < Len(last.docs)
    /\ last' = [NoRet EXCEPT !.op = "mutateReturnedArray",
                             !.docs = SubSeq(last.docs, 1, len)]
    /\ UNCHANGED <<dimension, documents, pending>>

\* what the caller assigns to returned[i].embedding: undefined (delete) or
\* another vector
EmbeddingWrites == {None, Some(<<1>>)}

\* a write to a field of an object: every holder of the object sees it
WriteEmbedding(docs, id, embedding) ==
    [i \in 1..Len(docs) |->
        IF docs[i].id = id THEN [docs[i] EXCEPT !.embedding = embedding] ELSE docs[i]]

\* returned[i].embedding = ..., or delete returned[i].embedding
MutateReturnedDocument(i, embedding) ==
    /\ ReturnedByGetAll
    /\ i \in 1..Len(last.docs)
    /\ last.docs[i].embedding # embedding
    /\ documents' = WriteEmbedding(getAllDocuments(documents), last.docs[i].id, embedding)
    /\ last' = [NoRet EXCEPT !.op = "mutateReturnedDocument",
                             !.id = last.docs[i].id,
                             !.docs = WriteEmbedding(last.docs, last.docs[i].id, embedding)]
    /\ UNCHANGED <<dimension, pending>>

NextAlias ==
    \/ Next
    \/ Quiescent /\ \E len \in 0..(Cardinality(Ids) - 1) : MutateReturnedArray(len)
    \/ Quiescent /\ \E i \in 1..Cardinality(Ids), e \in EmbeddingWrites :
                        MutateReturnedDocument(i, e)

SpecAlias == Init /\ [][NextAlias]_vars

----------------------------------------------------------------------------
(* Callers that do not await: a call of the interface starts while earlier *)
(* asynchronous calls are suspended on the provider, and the provider      *)
(* answers the suspended calls in any order.  Each method body runs to its *)
(* next await, or to its end, without interruption.                        *)

\* the options of the text searches that overlap with other calls, and the
\* provider's answers to the overlapping calls
OverlapOptions == {NoOptions, [NoOptions EXCEPT !.topK = Some(1)]}
OverlapAnswers == {<<1, 0>>, <<-1, 0>>}

NextOverlap ==
    \/ \E d \in RawDocs : AddDocument(d)
    \/ \E id \in Ids : DeleteDocument(id)
    \/ Clear
    \/ \E o \in OverlapOptions : SimilaritySearch(o)
    \/ \E t \in Tasks, v \in OverlapAnswers : AddDocumentResume(t, v)
    \/ \E t \in Tasks, v \in OverlapAnswers : SimilaritySearchResume(t, v)
    \/ \E t \in Tasks, c \in Causes : EmbeddingRejected(t, c)

SpecOverlap == Init /\ [][NextOverlap]_vars

----------------------------------------------------------------------------
(* Claims *)

\* C1: every resident document has an embedding whose length is the
\* store's dimension, in every state reached by addDocument, addDocuments,
\* import, deleteDocument and clear.
C1_EveryEmbeddingHasDimension ==
    \A i \in 1..Len(documents) :
        /\ IsSome(documents[i].embedding)
        /\ Len(Val(documents[i].embedding)) = dimension

\* C2: similaritySearchByVector with a vector whose length is not the
\* store's dimension fails with the dimension-mismatch error in every store
\* state, the empty store included, before any document is scanned (no
\* filter call, no warning, no similarity computed).
C2_WrongLengthAlwaysFails ==
    (last.op = "similaritySearchByVector" /\ Len(last.vector) # dimension)
        => /\ last.status = "error"
           /\ last.error = "DimensionMismatch"
           /\ last.filtered = << >>
           /\ last.warned = << >>
           /\ last.cosined = << >>

\* C3: what getAllDocuments / export returned is a snapshot: no write of
\* the caller to the returned sequence or to the documents in it changes
\* the store's collection (and so what getDocument, size or a later search
\* observe).
C3_ReturnedValueIsSnapshot ==
    [][last'.op \in {"mutateReturnedArray", "mutateReturnedDocument"}
          => documents' = documents]_vars

----------------------------------------------------------------------------
(* What the claims below speak of *)

\* the ids resident in a collection
ResidentIds(docs) == {docs[i].id : i \in 1..Len(docs)}

\* the last of the first n inputs that has the given id (0 if none)
LastWithId(input, n, id) ==
    IF \E j \in 1..n : input[j].id = id
    THEN CHOOSE j \in 1..n :
             /\ input[j].id = id
             /\ \A h \in 1..n : input[h].id = id => h <= j
    ELSE 0

\* after is before with the first n of written set, in order, and nothing
\* else changed
WrittenInOrder(before, after, written, n) ==
    /\ ResidentIds(after) = ResidentIds(before) \cup {written[j].id : j \in 1..n}
    /\ Len(after) = Cardinality(ResidentIds(after))
    /\ \A id \in ResidentIds(after) :
          MapGet(after, id) =
              IF LastWithId(written, n, id) # 0
              THEN Some(written[LastWithId(written, n, id)])
              ELSE MapGet(before, id)

\* the step resumes or ends the suspended call t of the given operation
Answered(t, op) == pending[t].op = op /\ pending'[t] # pending[t]

\* C4: addDocuments takes its inputs one at a time in input order: each
\* answer of the provider commits exactly the input awaited.  When the call
\* for input k is rejected (a provider error or a cancellation) the batch
\* fails with the embedding error, the store is left as it is with inputs
\* 1..k-1 committed, input k and the later ones are not inserted and the
\* provider has been called k times, never for a later input.
C4_BatchAbortsAtFirstFailure ==
    [][\A t \in Tasks :
          Answered(t, "addDocuments") =>
              LET k == pending[t].k
                  input == pending[t].input
              IN  IF last'.status = "error"
                  THEN /\ last'.op = "addDocuments"
                       /\ last'.error = "EmbeddingGeneration"
                       /\ documents' = documents
                       /\ pending'[t].op = "idle"
                       /\ last'.calls = k
                       /\ Len(last'.docs) = k - 1
                       /\ \A j \in 1..(k - 1) :
                             /\ last'.docs[j].id = input[j].id
                             /\ last'.docs[j].content = input[j].content
                             /\ MapGet(documents', input[j].id) =
                                    Some(last'.docs[LastWithId(input, k - 1, input[j].id)])
                  ELSE /\ WrittenInOrder(documents, documents',
                                         <<fullDocument(input[k], last'.vector)>>, 1)
                       /\ last'.docs[k] = fullDocument(input[k], last'.vector)
                       /\ Len(last'.docs) = k
                       /\ IF k < Len(input)
                          THEN pending'[t].k = k + 1 /\ last'.calls = k + 1
                          ELSE pending'[t].op = "idle" /\ last'.calls = k]_vars

C4_Witness ==
    /\ last.op = "addDocuments"
    /\ last.status = "error"
    /\ last.cause = "cancelled"
    /\ Len(last.input) = 2
    /\ last.calls = 2
    /\ MapHas(documents, last.input[1].id)
    /\ ~MapHas(documents, last.input[2].id)

\* the first input without an embedding (0 if every input has one)
FirstMissing(input) ==
    IF \E j \in 1..Len(input) : ~IsSome(input[j].embedding)
    THEN CHOOSE j \in 1..Len(input) :
             /\ ~IsSome(input[j].embedding)
             /\ \A h \in 1..(j - 1) : IsSome(input[h].embedding)
    ELSE 0

\* C5: import takes its input in order and fails with the missing-embedding
\* error at the first document without an embedding: the documents before
\* it are committed, it and the later ones are not; importing a single
\* document without an embedding leaves the collection as it was.
C5_ImportStopsAtFirstMissing ==
    [][last'.op = "import" =>
          LET input == last'.input
              f == FirstMissing(input)
          IN  IF f = 0
              THEN /\ last'.status = "ok"
                   /\ WrittenInOrder(documents, documents', input, Len(input))
              ELSE /\ last'.status = "error"
                   /\ last'.error = "MissingEmbedding"
                   /\ WrittenInOrder(documents, documents', input, f - 1)
                   /\ (f = 1 => documents' = documents)]_vars

C5_Witness ==
    /\ last.op = "import"
    /\ last.status = "error"
    /\ Len(last.input) = 2
    /\ FirstMissing(last.input) = 2
    /\ MapGet(documents, last.input[1].id) = Some(last.input[1])
    /\ ~MapHas(documents, last.input[2].id)

\* C6: importing export() into a new store of the same configuration
\* succeeds and gives a store of the same size in which getDocument
\* returns, for every id, what it returns in the exporting store.
C6_ExportImportRoundTrip ==
    last.op = "importIntoNewStore" =>
        /\ last.status = "ok"
        /\ last.n = Len(documents)
        /\ \A id \in Ids : MapGet(last.docs, id) = MapGet(documents, id)

C6_Witness ==
    /\ last.op = "importIntoNewStore"
    /\ last.n = 2
    /\ \E id \in Ids : MapGet(last.docs, id) # None
                       /\ Len(Val(Val(MapGet(last.docs, id)).embedding)) # dimension

\* the step is a call of similaritySearch (not the resumption of one)
SearchCalled ==
    /\ last'.op = "similaritySearch"
    /\ \A t \in Tasks : ~Answered(t, "similaritySearch")

\* C7: similaritySearch called on a store without documents returns an
\* empty result, raises nothing and does not call the provider.
C7_SearchOnEmptyStore ==
    [][(SearchCalled /\ Len(documents) = 0) =>
          /\ last'.status = "ok"
          /\ last'.results = << >>
          /\ last'.calls = 0
          /\ pending' = pending]_vars

C7_Witness ==
    /\ last.op = "similaritySearch"
    /\ last.status = "ok"
    /\ last.calls = 0
    /\ Len(documents) = 0
    /\ Quiescent

\* C8: when the provider call of an addDocument is rejected, the provider
\* has been called once for it and is not called again, the caller gets
\* the embedding-generation error and the collection is unchanged.
C8_FailedUpsertChangesNothing ==
    [][\A t \in Tasks :
          (Answered(t, "addDocument") /\ last'.status = "error") =>
              /\ last'.op = "addDocument"
              /\ last'.error = "EmbeddingGeneration"
              /\ last'.calls = 1
              /\ pending'[t].op = "idle"
              /\ documents' = documents]_vars

C8_Witness ==
    /\ last.op = "addDocument"
    /\ last.status = "error"
    /\ last.calls = 1
    /\ MapHas(documents, last.input[1].id)
    /\ Val(MapGet(documents, last.input[1].id)).content # last.input[1].content

\* C9: a successful addDocument under a resident id replaces the document
\* whole (content and metadata of the new input, the embedding the provider
\* answered), leaves size() as it was and getDocument(id) returns the
\* document written; under an id not resident size() grows by one.  No
\* other document changes.
C9_UpsertReplacesWhole ==
    [][\A t \in Tasks :
          (Answered(t, "addDocument") /\ last'.status = "ok") =>
              LET input == pending[t].input[1]
                  written == Document(input.id, input.content, input.metadata,
                                      Some(last'.vector))
              IN  /\ MapGet(documents', input.id) = Some(written)
                  /\ last'.docs = <<written>>
                  /\ Len(documents') =
                         IF MapHas(documents, input.id)
                         THEN Len(documents) ELSE Len(documents) + 1
                  /\ \A id \in Ids \ {input.id} :
                         MapGet(documents', id) = MapGet(documents, id)]_vars

C9_Witness ==
    /\ last.op = "addDocument"
    /\ last.status = "ok"
    /\ Len(documents) = 2
    /\ documents[1].id = last.id
    /\ documents[1].metadata = None

\* C10: the results r1..rn of a similaritySearch or similaritySearchByVector
\* with a positive topK (5 when not given) have r1.score >= ... >= rn.score
\* and n <= topK.
C10_ResultsRankedAndCut ==
    (last.op \in {"similaritySearch", "similaritySearchByVector"}
        /\ last.status = "ok") =>
        /\ \A i, j \in 1..Len(last.results) :
              i < j => ScoreGE(last.results[i].score, last.results[j].score)
        /\ Len(last.results) <= TopKOf(last.options)

C10_Witness ==
    /\ last.op = "similaritySearch"
    /\ last.status = "ok"
    /\ last.options.topK = Some(1)
    /\ Len(last.cosined) = 2
    /\ Len(last.results) = 1
    /\ last.results[1].document = documents[2]
    /\ ScoreGE(cosineSimilarity(last.vector, Val(documents[1].embedding)).score,
               Score(ThresholdOf(last.options), 1))
    /\ ~ScoreGE(cosineSimilarity(last.vector, Val(documents[1].embedding)).score,
                last.results[1].score)

----------------------------------------------------------------------------
(* What the claims about a finished search speak of *)

\* the step was a similaritySearch or similaritySearchByVector that returned
Searched ==
    /\ last.op \in {"similaritySearch", "similaritySearchByVector"}
    /\ last.status = "ok"

\* the threshold and the filter of the search, and the score of a document
\* against its query vector
SearchThreshold == Score(ThresholdOf(last.options), 1)
PassesFilter(doc) ==
    IsSome(last.options.filter) => ApplyFilter(Val(last.options.filter), doc)
ScoreOf(doc) == cosineSimilarity(last.vector, Val(doc.embedding)).score

\* the positions in the collection of the documents the search retains
Retained ==
    {i \in 1..Len(documents) :
        /\ PassesFilter(documents[i])
        /\ IsSome(documents[i].embedding)
        /\ ScoreGE(ScoreOf(documents[i]), SearchThreshold)}

\* the positions in the collection of the documents the search returned
Returned ==
    {i \in 1..Len(documents) :
        \E k \in 1..Len(last.results) : last.results[k].document = documents[i]}

Elems(s) == {s[k] : k \in 1..Len(s)}

\* C12: when a search is given a filter, every returned document satisfies
\* it, and a resident document that fails it is excluded before anything
\* else is done with it: no similarity is computed for it and no
\* missing-embedding warning is issued for it.
C12_FilterFirst ==
    (last.op \in {"similaritySearch", "similaritySearchByVector"}
        /\ IsSome(last.options.filter)) =>
        /\ \A k \in 1..Len(last.results) :
              ApplyFilter(Val(last.options.filter), last.results[k].document)
        /\ \A i \in 1..Len(documents) :
              ~ApplyFilter(Val(last.options.filter), documents[i]) =>
                  /\ documents[i].id \notin Elems(last.cosined)
                  /\ documents[i].id \notin Elems(last.warned)

C12_Witness ==
    /\ Searched
    /\ IsSome(last.options.filter)
    /\ Len(documents) = 2
    /\ ~ApplyFilter(Val(last.options.filter), documents[1])
    /\ documents[1].embedding = None
    /\ last.filtered = <<documents[1].id, documents[2].id>>
    /\ last.cosined = <<documents[2].id>>
    /\ Len(last.results) = 1
    /\ last.results[1].document = documents[2]

\* C13: deleteDocument(id) returns true exactly when the id was resident,
\* and then removes that document only (the size drops by one, every other
\* id keeps its document); otherwise it returns false, raises nothing and
\* the collection is as it was.
C13_DeleteRemovesOnlyThat ==
    [][last'.op = "deleteDocument" =>
          /\ last'.status = "ok"
          /\ last'.found = MapHas(documents, last'.id)
          /\ IF MapHas(documents, last'.id)
             THEN /\ ~MapHas(documents', last'.id)
                  /\ Len(documents') = Len(documents) - 1
                  /\ \A id \in Ids \ {last'.id} :
                        MapGet(documents', id) = MapGet(documents, id)
             ELSE documents' = documents]_vars

C13_Witness ==
    /\ last.op = "deleteDocument"
    /\ last.found
    /\ last.id = "a"
    /\ Len(documents) = 1
    /\ documents[1].id = "b"

\* C14 as stated: when options.threshold is omitted, a search does no
\* filtering by score: every resident document that passes the filter and
\* has an embedding is retained whatever its score, a negative one included
\* (it is returned unless topK results are returned already).
C14_OmittedThresholdKeepsAll ==
    (Searched /\ last.options.threshold = None) =>
        \A i \in 1..Len(documents) :
            (PassesFilter(documents[i]) /\ IsSome(documents[i].embedding))
                => \/ i \in Returned
                   \/ Len(last.results) = TopKOf(last.options)

\* C14 as amended: when options.threshold is omitted the threshold is 0, an
\* inclusive minimum: a resident document that passes the filter and has an
\* embedding is retained exactly when its score is >= 0, so that one whose
\* cosine similarity to the query is negative is never returned.
C14_OmittedThresholdIsZero ==
    (Searched /\ last.options.threshold = None) =>
        /\ \A i \in Returned : ScoreGE(ScoreOf(documents[i]), Score(0, 1))
        /\ \A i \in 1..Len(documents) :
              (/\ PassesFilter(documents[i])
               /\ IsSome(documents[i].embedding)
               /\ ScoreGE(ScoreOf(documents[i]), Score(0, 1)))
                  => \/ i \in Returned
                     \/ Len(last.results) = TopKOf(last.options)

C14_Witness ==
    /\ Searched
    /\ last.options = NoOptions
    /\ Len(documents) = 2
    /\ ScoreOf(documents[1]) = Score(-1, 1)
    /\ ScoreOf(documents[2]) = Score(1, 1)
    /\ Len(last.results) = 1
    /\ last.results[1].document = documents[2]

\* a score equal to 1
IsOne(s) == ScoreGE(s, Score(1, 1)) /\ ScoreGE(Score(1, 1), s)

\* the step was similaritySearchByVector(d.embedding) with default threshold
\* and filter, for the resident document d at position i, whose embedding
\* is non-zero and of the store's dimension
SearchedByEmbeddingOf(i) ==
    /\ last.op = "similaritySearchByVector"
    /\ last.options.threshold = None
    /\ last.options.filter = None
    /\ TopKOf(last.options) >= 1
    /\ documents[i].embedding = Some(last.vector)
    /\ Len(last.vector) = dimension
    /\ Dot(last.vector, last.vector, Len(last.vector)) # 0

IsZero(v) == \A k \in 1..Len(v) : v[k] = 0

\* the step was a search that scanned the collection with a query vector
Scanned ==
    /\ last.op \in {"similaritySearch", "similaritySearchByVector"}
    /\ last.status = "ok" \/ last.error = "VectorsLength"
    /\ last.vector # << >>

\* C16: for a zero vector z and any v of the same length,
\* cosineSimilarity(z, v) and cosineSimilarity(v, z) return exactly 0 and
\* raise nothing, so that in a search a resident document whose embedding
\* is all zeros (or any document, when the query is all zeros) gets score 0
\* and does not make the search fail: a search fails in its scan only over
\* an embedding of another length than the query.
C16_ZeroVectorScoresZero ==
    Scanned =>
        /\ \A i \in 1..Len(documents) :
              (/\ IsSome(documents[i].embedding)
               /\ Len(Val(documents[i].embedding)) = Len(last.vector)
               /\ IsZero(Val(documents[i].embedding)) \/ IsZero(last.vector)) =>
                  /\ cosineSimilarity(last.vector, Val(documents[i].embedding))
                         = [threw |-> FALSE, score |-> Score(0, 1)]
                  /\ cosineSimilarity(Val(documents[i].embedding), last.vector)
                         = [threw |-> FALSE, score |-> Score(0, 1)]
                  /\ \A k \in 1..Len(last.results) :
                        last.results[k].document = documents[i]
                            => last.results[k].score = Score(0, 1)
                  /\ (/\ last.status = "ok"
                      /\ PassesFilter(documents[i])
                      /\ Len(last.results) < TopKOf(last.options))
                         => i \in Returned
        /\ last.status = "error" =>
              \E j \in 1..Len(documents) :
                  /\ IsSome(documents[j].embedding)
                  /\ Len(Val(documents[j].embedding)) # Len(last.vector)

C16_Witness ==
    /\ Scanned
    /\ last.status = "ok"
    /\ Len(documents) = 2
    /\ documents[1].embedding = Some(<<0, 0>>)
    /\ last.vector = <<1, 0>>
    /\ Len(last.results) = 2
    /\ last.results[2] = [document |-> documents[1], score |-> Score(0, 1)]
    /\ IsOne(last.results[1].score)

\* the resident documents that have an embedding, in iteration order
HasEmbedding(doc) == IsSome(doc.embedding)
WithEmbedding(docs) == SelectSeq(docs, HasEmbedding)

\* the positions of the documents the scan reached: all when it returned,
\* those up to the one it threw over when it failed
Reached ==
    {i \in 1..Len(documents) :
        last.status = "ok"
            \/ \E j \in i..Len(documents) :
                  /\ PassesFilter(documents[j])
                  /\ IsSome(documents[j].embedding)
                  /\ Len(Val(documents[j].embedding)) # Len(last.vector)
                  /\ \A h \in 1..(j - 1) :
                        (PassesFilter(documents[h]) /\ IsSome(documents[h].embedding))
                            => Len(Val(documents[h].embedding)) = Len(last.vector)}

\* C17: a resident document that lacks an embedding when a search scans it,
\* and passes the filter, does not make the search fail: it is skipped (no
\* similarity computed, not returned) with a warning naming its id, and the
\* remaining documents are ranked and returned as they are without it.
C17_MissingEmbeddingSkipped ==
    Scanned =>
        /\ \A i \in Reached :
              (PassesFilter(documents[i]) /\ ~IsSome(documents[i].embedding)) =>
                  /\ documents[i].id \in Elems(last.warned)
                  /\ documents[i].id \notin Elems(last.cosined)
                  /\ i \notin Returned
        /\ \A id \in Elems(last.warned) :
              \E i \in 1..Len(documents) :
                  documents[i].id = id /\ ~IsSome(documents[i].embedding)
        /\ LET usual == Rank(WithEmbedding(documents), last.vector, last.options)
           IN  /\ (last.status = "error") = usual.threw
               /\ last.status = "ok" => last.results = usual.results

C17_Witness ==
    /\ Scanned
    /\ last.status = "ok"
    /\ last.options.filter = None
    /\ Len(documents) = 2
    /\ documents[1].embedding = None
    /\ last.warned = <<documents[1].id>>
    /\ last.cosined = <<documents[2].id>>
    /\ Len(last.results) = 1
    /\ last.results[1].document = documents[2]

\* the operations that only read the collection
ReadOps ==
    {"getDocument", "getAllDocuments", "export", "size", "similaritySearch",
     "similaritySearchByVector"}

\* C18: getDocument, getAllDocuments, export, size, similaritySearch and
\* similaritySearchByVector leave the collection as it was, whether they
\* return or fail: the same resident ids, the same document under each and
\* the same iteration order, at every step of the operation.
C18_ReadsChangeNothing ==
    [][last'.op \in ReadOps => documents' = documents]_vars

C18_Witness ==
    /\ last.op = "similaritySearch"
    /\ last.status = "error"
    /\ last.error = "VectorsLength"
    /\ Len(documents) = 2
    /\ Len(last.cosined) = 2

\* C19: the results of a search are the topK highest-scoring of the
\* candidates it retained (filter-passing, with an embedding, score >=
\* threshold): each result is a retained candidate with its score, every
\* retained candidate that is not returned scores no more than any result,
\* all are returned when fewer than topK are retained, and no resident
\* document is returned twice.
C19_TopKOfRetained ==
    Searched =>
        /\ \A k \in 1..Len(last.results) :
              \E i \in Retained :
                  last.results[k] =
                      [document |-> documents[i], score |-> ScoreOf(documents[i])]
        /\ \A i \in Retained \ Returned :
              \A k \in 1..Len(last.results) :
                  ScoreGE(last.results[k].score, ScoreOf(documents[i]))
        /\ Len(last.results) =
              IF Cardinality(Retained) < TopKOf(last.options)
              THEN Cardinality(Retained) ELSE TopKOf(last.options)
        /\ \A k, m \in 1..Len(last.results) :
              k # m => last.results[k].document.id # last.results[m].document.id

C19_Witness ==
    /\ Searched
    /\ last.op = "similaritySearchByVector"
    /\ TopKOf(last.options) = 1
    /\ Retained = {1, 2}
    /\ Returned = {1}
    /\ ~ScoreGE(ScoreOf(documents[2]), ScoreOf(documents[1]))

\* two scores are equal
ScoreEQ(s, t) == ScoreGE(s, t) /\ ScoreGE(t, s)

\* a search returned equal-scoring results in the collection's iteration
\* order, and cut by topK the later of equal-scoring candidates
TiesInIterationOrder ==
    Searched =>
        /\ \A k, m \in 1..Len(last.results) :
              (k < m /\ ScoreEQ(last.results[k].score, last.results[m].score)) =>
                  IndexOf(documents, last.results[k].document.id)
                      < IndexOf(documents, last.results[m].document.id)
        /\ \A i \in Retained \ Returned : \A j \in Returned :
              ScoreEQ(ScoreOf(documents[i]), ScoreOf(documents[j])) => j < i

\* a step keeps the relative order of the ids resident before and after it
\* (a replaced document keeps its position) and puts the ids it makes
\* resident after those that stay (an id deleted and inserted again is last)
FirstInsertionOrder ==
    \/ documents' = documents
    \/ \A a, b \in Ids :
          (MapHas(documents, b) /\ MapHas(documents', a) /\ MapHas(documents', b)) =>
              IF MapHas(documents, a)
              THEN (IndexOf(documents, a) < IndexOf(documents, b))
                       = (IndexOf(documents', a) < IndexOf(documents', b))
              ELSE IndexOf(documents', b) < IndexOf(documents', a)

\* C20: results with equal scores are returned in the collection's
\* iteration order, which is the order in which the ids were first inserted:
\* replacing a resident document by addDocument or import keeps its
\* position, deleting it and inserting it again moves it to the end; the
\* same order decides which of several equal-scoring candidates topK cuts.
C20_TiesByFirstInsertion ==
    [][FirstInsertionOrder /\ TiesInIterationOrder']_vars

C20_Witness ==
    /\ Searched
    /\ TopKOf(last.options) = 1
    /\ Retained = {1, 2}
    /\ documents[1].id = "b"
    /\ ScoreEQ(ScoreOf(documents[1]), ScoreOf(documents[2]))
    /\ Len(last.results) = 1
    /\ last.results[1].document = documents[1]

\* C21: in every reachable store state, similaritySearchByVector with a
\* query vector whose length is the store's dimension does not raise: no
\* vectors-length error of the similarity computation surfaces from a
\* correctly sized query.
C21_SizedQueryNeverRaises ==
    (last.op = "similaritySearchByVector" /\ Len(last.vector) = dimension)
        => last.status = "ok"

\* C22: when addDocument calls for the same id overlap, each writes only
\* when its own provider call returns, and then writes its own document
\* whole: after every return the resident document of the id has the content
\* and metadata of the call that returned and the embedding answered to it
\* (never a mix of two calls), the id is resident once, and the calls still
\* suspended stay suspended with their own inputs.  So the resident
\* document is that of the call that returned last, whichever was invoked
\* first.
C22_LastReturnWins ==
    [][\A t \in Tasks :
          (Answered(t, "addDocument") /\ last'.status = "ok") =>
              LET input == pending[t].input[1]
                  written == Document(input.id, input.content, input.metadata,
                                      Some(last'.vector))
              IN  /\ MapGet(documents', input.id) = Some(written)
                  /\ Cardinality({i \in 1..Len(documents') :
                                     documents'[i].id = input.id}) = 1
                  /\ \A u \in Tasks \ {t} : pending'[u] = pending[u]
                  /\ \A id \in Ids \ {input.id} :
                        MapGet(documents', id) = MapGet(documents, id)]_vars

\* of two overlapping addDocument calls for one id, one has returned and
\* written its document while the other is still suspended
C22_Witness ==
    /\ last.op = "addDocument"
    /\ last.status = "ok"
    /\ last.id = "a"
    /\ last.input[1].content = "c1"
    /\ last.vector = <<-1, 0>>
    /\ documents = <<Document("a", "c1", Some("m"), Some(<<-1, 0>>))>>
    /\ \E u \in Tasks :
          /\ pending[u].op = "addDocument"
          /\ pending[u].input[1] = Document("a", "c2", None, None)

\* C23: clear() or deleteDocument(id) executed while an addDocument of id
\* is suspended on the provider does not cancel it: the suspended calls are
\* as they were after the clear or delete, and when the provider then
\* answers, the document is inserted though its id is not resident any
\* more, so that the store holds the id (and is not empty) after it.
C23_ClearDoesNotCancel ==
    [][/\ last'.op \in {"clear", "deleteDocument"} => pending' = pending
       /\ \A t \in Tasks :
             (/\ Answered(t, "addDocument")
              /\ last'.status = "ok"
              /\ ~MapHas(documents, pending[t].input[1].id)) =>
                 /\ documents' = Append(documents,
                        fullDocument(pending[t].input[1], last'.vector))
                 /\ last'.docs = <<fullDocument(pending[t].input[1], last'.vector)>>]_vars

\* deleteDocument(a) has removed a while an addDocument of a is suspended
C23_Witness ==
    /\ last.op = "deleteDocument"
    /\ last.id = "a"
    /\ last.found
    /\ documents = << >>
    /\ \E t \in Tasks :
          pending[t].op = "addDocument" /\ pending[t].input[1].id = "a"

\* the positions of the documents of the collection, as it is when the
\* step is taken, that a search with the given query vector and options
\* retains
RetainedNow(query, options) ==
    {i \in 1..Len(documents) :
        /\ IsSome(options.filter) => ApplyFilter(Val(options.filter), documents[i])
        /\ IsSome(documents[i].embedding)
        /\ ~cosineSimilarity(query, Val(documents[i].embedding)).threw
        /\ ScoreGE(cosineSimilarity(query, Val(documents[i].embedding)).score,
                   Score(ThresholdOf(options), 1))}

\* C24: a similaritySearch that passed the empty-store check ranks, in the
\* one step in which the query-embedding call returns, the collection as it
\* is at that step, whatever it was when the search was called: its results
\* are documents resident at the return with their scores, as many as topK
\* allows of those retained, it returns an empty sequence without failing
\* when the store was emptied meanwhile, and the step changes neither the
\* collection nor the other suspended calls.
C24_SearchRanksAtReturn ==
    [][\A t \in Tasks :
          (Answered(t, "similaritySearch") /\ last'.error # "EmbeddingGeneration") =>
              LET kept == RetainedNow(last'.vector, pending[t].options) IN
              /\ documents' = documents
              /\ \A u \in Tasks \ {t} : pending'[u] = pending[u]
              /\ Len(documents) = 0 =>
                    last'.status = "ok" /\ last'.results = << >>
              /\ last'.status = "ok" =>
                    /\ \A k \in 1..Len(last'.results) :
                          \E i \in kept :
                              last'.results[k] =
                                  [document |-> documents[i],
                                   score |-> cosineSimilarity(last'.vector,
                                       Val(documents[i].embedding)).score]
                    /\ Len(last'.results) =
                          IF Cardinality(kept) < TopKOf(pending[t].options)
                          THEN Cardinality(kept) ELSE TopKOf(pending[t].options)]_vars

\* a search called on a store that was not empty has returned after the
\* store was emptied
C24_Witness ==
    /\ last.op = "similaritySearch"
    /\ last.status = "ok"
    /\ last.calls = 1
    /\ last.results = << >>
    /\ documents = << >>

====
